---- MODULE Spec2Model ----
(***************************************************************************)
(* Model of the MCP HTTP template server (src/mcp_server/main.py):         *)
(*   - InMemoryEventStore (store_event, get_events_since),                 *)
(*   - the send_notification loop of call_tool, a coroutine that is        *)
(*     suspended at its two awaits and may be cancelled there,             *)
(*   - the synchronous branches of call_tool (greet, calculate,            *)
(*     get_server_info, unknown tool).                                     *)
(* Python strings that the code builds are modelled as sequences of        *)
(* pieces; the event id "event_<n>" is a sequence of characters.           *)
(***************************************************************************)
EXTENDS Integers, Sequences, FiniteSets, TLC

VARIABLES
    events,         \* InMemoryEventStore.events: dict stream_id -> list of {id, message}
    event_counter,  \* InMemoryEventStore.event_counter
    calls,          \* history: the store_event calls made so far, with the id each returned
    result,         \* the value the last get_events_since call handed to its caller
    inv,            \* the send_notification invocations (coroutine frames)
    request,        \* the tool call being dispatched (name, arguments)
    response        \* what call_tool handed back for request

vars == <<events, event_counter, calls, result, inv, request, response>>

---------------------------------------------------------------------------
(* Bounds of the model *)

MaxEvents == 4

MaxCount == 2

Streams == {"s1", "s2"}

Payloads == {"m1", "m2"}

Invocations == {1, 2}

Intervals == {0, 1}

Callers == {"x"}

Numbers == {0, 1, 2}

---------------------------------------------------------------------------
(* Python values *)

\* An optional value: None, or a present value.
None == [present |-> FALSE, val |-> <<>>]

Some(v) == [present |-> TRUE, val |-> v]

DigitChar(d) == <<"0", "1", "2", "3", "4", "5", "6", "7", "8", "9">>[d + 1]

DigitVal(c) == CHOOSE d \in 0..9 : DigitChar(d) = c

RECURSIVE Digits(_)
Digits(n) == IF n < 10 THEN <<DigitChar(n)>>
             ELSE Digits(n \div 10) \o <<DigitChar(n % 10)>>

\* str(n) of a Python int, as a sequence of characters.
Str(n) == IF n < 0 THEN <<"-">> \o Digits(0 - n) ELSE Digits(n)

RECURSIVE ParseDigits(_)
ParseDigits(s) == IF s = <<>> THEN 0
                  ELSE 10 * ParseDigits(SubSeq(s, 1, Len(s) - 1)) + DigitVal(s[Len(s)])

EventPrefix == <<"e", "v", "e", "n", "t", "_">>

\* f"event_{self.event_counter}"
EventIdOf(counter) == EventPrefix \o Str(counter)

\* The position of an id in the insertion order: the integer it renders.
IdNum(id) == ParseDigits(SubSeq(id, Len(EventPrefix) + 1, Len(id)))

---------------------------------------------------------------------------
(* InMemoryEventStore *)

StreamEvents(stream_id) ==
    IF stream_id \in DOMAIN events THEN events[stream_id] ELSE <<>>

\* A mutant: the id is taken from a counter kept per stream.
store_event_per_stream(stream_id, message) ==
    LET old      == StreamEvents(stream_id)
        event_id == EventIdOf(Len(old) + 1)
    IN  /\ event_counter' = event_counter + 1
        /\ events' = [x \in DOMAIN events \cup {stream_id} |->
                        IF x = stream_id
                        THEN Append(old, [id |-> event_id, message |-> message])
                        ELSE events[x]]
        /\ calls' = Append(calls, [stream |-> stream_id, message |-> message,
                                   id |-> event_id])

\* A mutant: the stream's list is replaced, not appended to.
store_event_overwrite(stream_id, message) ==
    LET counter  == event_counter + 1
        event_id == EventIdOf(counter)
    IN  /\ event_counter' = counter
        /\ events' = [x \in DOMAIN events \cup {stream_id} |->
                        IF x = stream_id
                        THEN <<[id |-> event_id, message |-> message]>>
                        ELSE events[x]]
        /\ calls' = Append(calls, [stream |-> stream_id, message |-> message,
                                   id |-> event_id])

\* store_event: a coroutine with no await in it, so it runs without interleaving.
store_event(stream_id, message) ==
    LET counter  == event_counter + 1
        event_id == EventIdOf(counter)
        old      == StreamEvents(stream_id)
    IN  /\ event_counter' = counter
        /\ events' = [x \in DOMAIN events \cup {stream_id} |->
                        IF x = stream_id
                        THEN Append(old, [id |-> event_id, message |-> message])
                        ELSE events[x]]
        /\ calls' = Append(calls, [stream |-> stream_id, message |-> message,
                                   id |-> event_id])

\* for i, event in enumerate(events): if event["id"] == last_event_id
\* The first index (1-based) that matches, 0 when none does.
FindEvent(evs, last_event_id) ==
    IF \E i \in 1..Len(evs) : evs[i].id = last_event_id
    THEN CHOOSE i \in 1..Len(evs) :
            /\ evs[i].id = last_event_id
            /\ \A j \in 1..(i - 1) : evs[j].id # last_event_id
    ELSE 0

\* What get_events_since returns is a Python list object: either the very list
\* the store keeps for the stream (kind "stored") or a new list (kind "fresh").
StoredList(stream_id) == [kind |-> "stored", stream |-> stream_id, val |-> <<>>]

FreshList(v) == [kind |-> "fresh", stream |-> "", val |-> v]

Raised == [kind |-> "raised", stream |-> "", val |-> <<>>]

\* A mutant: events[i:] in place of events[i + 1:].
get_events_since_inclusive(stream_id, last_event_id) ==
    IF stream_id \notin DOMAIN events THEN FreshList(<<>>)
    ELSE LET evs == events[stream_id] IN
         IF ~last_event_id.present \/ last_event_id.val = <<>>
         THEN StoredList(stream_id)
         ELSE LET i == FindEvent(evs, last_event_id.val) IN
              IF i # 0 THEN FreshList(SubSeq(evs, i, Len(evs)))
              ELSE StoredList(stream_id)

\* A mutant: an id that is not found yields nothing.
get_events_since_strict(stream_id, last_event_id) ==
    IF stream_id \notin DOMAIN events THEN FreshList(<<>>)
    ELSE LET evs == events[stream_id] IN
         IF ~last_event_id.present \/ last_event_id.val = <<>>
         THEN StoredList(stream_id)
         ELSE LET i == FindEvent(evs, last_event_id.val) IN
              IF i # 0 THEN FreshList(SubSeq(evs, i + 1, Len(evs)))
              ELSE FreshList(<<>>)

\* A mutant: no membership test, self.events[stream_id] raises KeyError.
get_events_since_unchecked(stream_id, last_event_id) ==
    IF stream_id \notin DOMAIN events THEN Raised
    ELSE LET evs == events[stream_id] IN
         IF ~last_event_id.present \/ last_event_id.val = <<>>
         THEN StoredList(stream_id)
         ELSE LET i == FindEvent(evs, last_event_id.val) IN
              IF i # 0 THEN FreshList(SubSeq(evs, i + 1, Len(evs)))
              ELSE StoredList(stream_id)

\* A mutant: without a last id only the newest event is returned.
get_events_since_latest(stream_id, last_event_id) ==
    IF stream_id \notin DOMAIN events THEN FreshList(<<>>)
    ELSE LET evs == events[stream_id] IN
         IF ~last_event_id.present \/ last_event_id.val = <<>>
         THEN FreshList(SubSeq(evs, Len(evs), Len(evs)))
         ELSE LET i == FindEvent(evs, last_event_id.val) IN
              IF i # 0 THEN FreshList(SubSeq(evs, i + 1, Len(evs)))
              ELSE StoredList(stream_id)

\* get_events_since: no await in it either.
get_events_since(stream_id, last_event_id) ==
    IF stream_id \notin DOMAIN events THEN FreshList(<<>>)
    ELSE LET evs == events[stream_id] IN
         IF ~last_event_id.present \/ last_event_id.val = <<>>
         THEN StoredList(stream_id)
         ELSE LET i == FindEvent(evs, last_event_id.val) IN
              IF i # 0 THEN FreshList(SubSeq(evs, i + 1, Len(evs)))
              ELSE StoredList(stream_id)

\* The contents of a list object as the holder of the reference sees them now.
Deref(ref) == IF ref.kind = "stored" THEN StreamEvents(ref.stream) ELSE ref.val

\* The last ids a caller may send: none, the empty string, every id the store can
\* issue within the bound and one beyond it, and an id spelled with a leading zero.
LastEventIds ==
    {None, Some(<<>>)}
        \cup {Some(EventIdOf(n)) : n \in 1..(MaxEvents + 1)}
        \cup {Some(EventPrefix \o <<"0", "1">>)}

NoResult == [called |-> FALSE, stream |-> "", last |-> None, ref |-> FreshList(<<>>),
             returned |-> <<>>, ncalls |-> 0, known |-> FALSE]

NoRequest == [name |-> "", operation |-> None, a |-> None, b |-> None, who |-> None]

NoResponse == [kind |-> "none", text |-> <<>>]

IdleInvocation ==
    [pc |-> "idle", stream |-> "", interval |-> 0, count |-> 0, caller |-> "",
     i |-> 0, trace |-> <<>>, cancelled |-> FALSE, cancelled_at |-> 0, ret |-> <<>>]

---------------------------------------------------------------------------
(* The event store under concurrent callers *)

InitStore ==
    /\ events = <<>>
    /\ event_counter = 0
    /\ calls = <<>>
    /\ result = NoResult
    /\ inv = [p \in Invocations |-> IdleInvocation]
    /\ request = NoRequest
    /\ response = NoResponse

StoreEvent ==
    \E stream_id \in Streams, message \in Payloads :
        /\ event_counter < MaxEvents
        /\ store_event(stream_id, message)
        /\ UNCHANGED <<result, inv, request, response>>

GetEventsSince ==
    \E stream_id \in Streams, last_event_id \in LastEventIds :
        LET ref == get_events_since(stream_id, last_event_id) IN
        /\ result' = [called |-> TRUE, stream |-> stream_id, last |-> last_event_id,
                      ref |-> ref, returned |-> Deref(ref), ncalls |-> Len(calls),
                      known |-> stream_id \in DOMAIN events]
        /\ UNCHANGED <<events, event_counter, calls, inv, request, response>>

NextStore == StoreEvent \/ GetEventsSince

SpecStore == InitStore /\ [][NextStore]_vars

---------------------------------------------------------------------------
(* call_tool: send_notification *)

\* f"[{i + 1}/{count}] Notification from '{caller}' - interval: {interval}s"
notification_msg(i, count, caller, interval) ==
    <<"[", Str(i + 1), "/", Str(count), "] Notification from '", caller,
      "' - interval: ", Str(interval), "s">>

\* f"Sent {count} notifications with {interval}s interval for caller: {caller}"
result_msg(count, interval, caller) ==
    <<"Sent ", Str(count), " notifications with ", Str(interval),
      "s interval for caller: ", caller>>

\* The arguments of ctx.session.send_log_message.
LogMessage(request_id, data) ==
    [level |-> "info", data |-> data, logger |-> "notification_stream",
     related_request_id |-> request_id]

\* StreamSession.publish: the message is stored on the stream of its request.
publish(stream_id, payload) == store_event(stream_id, payload)

\* A mutant: the loop sleeps after every notification, the last one too.
PauseAfterEvery(i, count) == i < count

\* if i < count - 1:  # Don't wait after the last notification
PauseAfter(i, count) == i < count - 1

NotifyEntry(index, text) == [kind |-> "notify", index |-> index, text |-> text, secs |-> 0]

SleepEntry(secs) == [kind |-> "sleep", index |-> 0, text |-> <<>>, secs |-> secs]

\* The loop header after iteration f.i: the next iteration, or the return.
Continue(f) ==
    IF f.i + 1 < f.count
    THEN [f EXCEPT !.i = f.i + 1, !.pc = "send"]
    ELSE [f EXCEPT !.i = f.i + 1, !.pc = "done",
                   !.ret = result_msg(f.count, f.interval, f.caller)]

\* The call up to its first await: the arguments are read and the loop is entered;
\* range(count) is empty for count <= 0 and the call returns at once.
CallSendNotification(p) ==
    \E stream_id \in Streams, interval \in Intervals, count \in (0 - 1)..MaxCount,
       caller \in Callers :
        /\ inv[p].pc = "idle"
        /\ inv' = [inv EXCEPT ![p] =
                     IF count > 0
                     THEN [@ EXCEPT !.stream = stream_id, !.interval = interval,
                                    !.count = count, !.caller = caller,
                                    !.i = 0, !.pc = "send"]
                     ELSE [@ EXCEPT !.stream = stream_id, !.interval = interval,
                                    !.count = count, !.caller = caller,
                                    !.pc = "done",
                                    !.ret = result_msg(count, interval, caller)]]
        /\ UNCHANGED <<events, event_counter, calls, result, request, response>>

\* await ctx.session.send_log_message(...) completes, then the code runs to its
\* next await (the sleep, or the next send) or to the return.
SendLogMessage(p) ==
    LET f    == inv[p]
        text == notification_msg(f.i, f.count, f.caller, f.interval)
        g    == [f EXCEPT !.trace = Append(f.trace, NotifyEntry(f.i + 1, text))]
    IN  /\ f.pc = "send"
        /\ publish(f.stream, LogMessage(p, text))
        /\ inv' = [inv EXCEPT ![p] =
                     IF PauseAfter(f.i, f.count)
                     THEN [g EXCEPT !.pc = "sleep"]
                     ELSE Continue(g)]
        /\ UNCHANGED <<result, request, response>>

\* await anyio.sleep(interval) completes.
SleepDone(p) ==
    LET f == inv[p]
        g == [f EXCEPT !.trace = Append(f.trace, SleepEntry(f.interval))]
    IN  /\ f.pc = "sleep"
        /\ inv' = [inv EXCEPT ![p] = Continue(g)]
        /\ UNCHANGED <<events, event_counter, calls, result, request, response>>

\* A mutant: the cancellation is noted but the loop goes on.
CancelIgnored(p) ==
    /\ inv[p].pc \in {"send", "sleep"}
    /\ ~inv[p].cancelled
    /\ inv' = [inv EXCEPT ![p].cancelled = TRUE, ![p].cancelled_at = event_counter]
    /\ UNCHANGED <<events, event_counter, calls, result, request, response>>

\* The request is cancelled: the coroutine is suspended at one of its two awaits,
\* the cancellation is raised there and the call is left.
Cancel(p) ==
    /\ inv[p].pc \in {"send", "sleep"}
    /\ ~inv[p].cancelled
    /\ inv' = [inv EXCEPT ![p].cancelled = TRUE, ![p].cancelled_at = event_counter,
                          ![p].pc = "cancelled"]
    /\ UNCHANGED <<events, event_counter, calls, result, request, response>>

\* get_events_since while the producers run (a reconnecting client).
Replay ==
    \E stream_id \in Streams :
        LET ref == get_events_since(stream_id, None) IN
        /\ result' = [called |-> TRUE, stream |-> stream_id, last |-> None,
                      ref |-> ref, returned |-> Deref(ref), ncalls |-> Len(calls),
                      known |-> stream_id \in DOMAIN events]
        /\ UNCHANGED <<events, event_counter, calls, inv, request, response>>

NextNotify ==
    \/ \E p \in Invocations : CallSendNotification(p)
    \/ \E p \in Invocations : SendLogMessage(p)
    \/ \E p \in Invocations : SleepDone(p)
    \/ \E p \in Invocations : Cancel(p)
    \/ Replay

SpecNotify == InitStore /\ [][NextNotify]_vars

---------------------------------------------------------------------------
(* call_tool: greet, calculate, get_server_info, unknown tool *)

TextContent(text) == [kind |-> "text", text |-> text]

\* An exception leaves call_tool.
Fault(what) == [kind |-> "raise", text |-> <<what>>]

\* The keys of the operations dict, in insertion order.
Operations == <<"add", "subtract", "multiply", "divide">>

IsOperation(operation) ==
    operation.present /\ \E k \in 1..Len(Operations) : Operations[k] = operation.val

\* str() of an argument that may be missing.
ArgStr(x) == IF x.present THEN Str(x.val) ELSE <<"N", "o", "n", "e">>

\* str(x / y) for the ints of Numbers: one decimal place is exact for them.
QuotientStr(x, y) == Str(x \div y) \o <<".">> \o Str(((10 * x) \div y) % 10)

\* operations[operation](a, b), rendered; the lambdas' results.
Apply(operation, x, y) ==
    CASE operation = "add"      -> Str(x + y)
      [] operation = "subtract" -> Str(x - y)
      [] operation = "multiply" -> Str(x * y)
      [] operation = "divide"   -> IF y # 0 THEN QuotientStr(x, y)
                                   ELSE <<"N", "o", "n", "e">>

UnknownOperationText(operation) ==
    <<"Unknown operation: ", IF operation.present THEN operation.val ELSE "None",
      ". Valid operations: ", Operations>>

\* A mutant: the division by zero is not tested for.
calculate_unguarded(arguments) ==
    LET operation == arguments.operation
        a == arguments.a
        b == arguments.b
    IN  IF ~IsOperation(operation)
        THEN TextContent(UnknownOperationText(operation))
        ELSE IF ~a.present \/ ~b.present
        THEN Fault("TypeError")
        ELSE TextContent(<<"Result: ", ArgStr(a), " ", operation.val, " ", ArgStr(b),
                           " = ", Apply(operation.val, a.val, b.val)>>)

\* The calculate branch. With a or b missing the lambda is applied to None and
\* raises TypeError (for divide: the test y != 0 is true of None).
calculate(arguments) ==
    LET operation == arguments.operation
        a == arguments.a
        b == arguments.b
    IN  IF ~IsOperation(operation)
        THEN TextContent(UnknownOperationText(operation))
        ELSE IF operation.val = "divide" /\ b = Some(0)
        THEN TextContent(<<"Division by zero is not allowed">>)
        ELSE IF ~a.present \/ ~b.present
        THEN Fault("TypeError")
        ELSE TextContent(<<"Result: ", ArgStr(a), " ", operation.val, " ", ArgStr(b),
                           " = ", Apply(operation.val, a.val, b.val)>>)

ServerInfo ==
    [name |-> "MCP HTTP Template Server", version |-> "0.1.0",
     description |-> "A clean, professional template for building MCP servers",
     transport |-> "streamable-http",
     available_tools |-> <<"greet", "calculate", "get_server_info", "send_notification">>,
     status |-> "running"]

\* call_tool for the tools that answer without awaiting (send_notification is the
\* coroutine above).
call_tool(name, arguments) ==
    CASE name = "greet" ->
            TextContent(<<"Hello, ",
                          IF arguments.who.present THEN arguments.who.val ELSE "World",
                          "! Welcome to the MCP HTTP Template Server.">>)
      [] name = "calculate" -> calculate(arguments)
      [] name = "get_server_info" -> TextContent(<<ServerInfo>>)
      [] OTHER -> TextContent(<<"Unknown tool: ", name>>)

ToolNames == {"greet", "calculate", "get_server_info", "launch_rocket"}

OperationArgs == {None, Some("add"), Some("subtract"), Some("multiply"),
                  Some("divide"), Some("modulo")}

NumberArgs == {None} \cup {Some(n) : n \in Numbers}

Requests ==
    [name : ToolNames, operation : OperationArgs, a : NumberArgs, b : NumberArgs,
     who : {None, Some("Ada")}]

InitTool ==
    /\ events = <<>>
    /\ event_counter = 0
    /\ calls = <<>>
    /\ result = NoResult
    /\ inv = [p \in Invocations |-> IdleInvocation]
    /\ request \in Requests
    /\ response = NoResponse

CallTool ==
    /\ response.kind = "none"
    /\ response' = call_tool(request.name, request)
    /\ UNCHANGED <<events, event_counter, calls, result, inv, request>>

NextTool == CallTool

SpecTool == InitTool /\ [][NextTool]_vars

---------------------------------------------------------------------------
(* Properties of the event store, checked under SpecStore *)

\* The store_event calls made on a stream among the first n calls, in call order.
CallsOn(stream_id, n) ==
    LET OnStream(c) == c.stream = stream_id
    IN  SelectSeq(SubSeq(calls, 1, n), OnStream)

AsEvents(cs) == [k \in 1..Len(cs) |-> [id |-> cs[k].id, message |-> cs[k].message]]

StrictlyIncreasing(evs) ==
    \A i, j \in 1..Len(evs) : i < j => IdNum(evs[i].id) < IdNum(evs[j].id)

IdsOf(evs) == {evs[k].id : k \in 1..Len(evs)}

\* C1: get_events_since(stream) without a last id returns exactly the events
\* stored on that stream, in call order, and their ids strictly increase.
C1_FullReplayInCallOrder ==
    (result.called /\ ~result.last.present) =>
        /\ result.returned = AsEvents(CallsOn(result.stream, result.ncalls))
        /\ StrictlyIncreasing(result.returned)

\* Three events of one stream read back, with a call on another stream in between.
C1_Witness ==
    /\ result.called
    /\ ~result.last.present
    /\ Len(result.returned) >= 3
    /\ \E k \in 1..(Len(result.returned) - 1) :
          IdNum(result.returned[k + 1].id) > IdNum(result.returned[k].id) + 1

\* C2: with the last id equal to the id the k-th store_event call on the stream
\* returned, get_events_since returns exactly the events stored after the k-th
\* call, in order, none of the first k, and nothing when k is the last one.
C2_StrictSuffix ==
    result.called =>
        LET cs == CallsOn(result.stream, result.ncalls) IN
        \A k \in 1..Len(cs) :
            result.last = Some(cs[k].id) =>
                /\ result.returned = SubSeq(AsEvents(cs), k + 1, Len(cs))
                /\ \A j \in 1..k : cs[j].id \notin IdsOf(result.returned)
                /\ (k = Len(cs) => result.returned = <<>>)

\* A resume from the second of four events of a stream.
C2_Witness ==
    /\ result.called
    /\ LET cs == CallsOn(result.stream, result.ncalls) IN
       /\ Len(cs) >= 4
       /\ result.last = Some(cs[2].id)
       /\ Len(result.returned) = 2

\* C3: for a known stream and a last id that is present but is the id of no event
\* of that stream, get_events_since returns the stream's full sequence, in storage
\* order and without an error.
C3_FallbackFullReplay ==
    (/\ result.called
     /\ result.known
     /\ result.last.present
     /\ result.last.val \notin IdsOf(AsEvents(CallsOn(result.stream, result.ncalls)))) =>
        /\ result.ref.kind # "raised"
        /\ result.returned = AsEvents(CallsOn(result.stream, result.ncalls))

\* A resume with an id that was issued to the other stream: both events of the
\* stream come back.
C3_Witness ==
    /\ result.called
    /\ result.known
    /\ result.last.present
    /\ Len(result.returned) >= 2
    /\ \E k \in 1..result.ncalls :
          /\ calls[k].stream # result.stream
          /\ calls[k].id = result.last.val

\* C4: the ids in the store are unique across all streams, and every store_event
\* call returns an id no earlier call returned.
C4_IdsUnique ==
    /\ \A i, j \in 1..Len(calls) : i # j => calls[i].id # calls[j].id
    /\ \A s, t \in DOMAIN events :
          \A i \in 1..Len(events[s]), j \in 1..Len(events[t]) :
              (s # t \/ i # j) => events[s][i].id # events[t][j].id

\* Both streams hold at least two events.
C4_Witness ==
    /\ DOMAIN events = Streams
    /\ \A s \in Streams : Len(events[s]) >= 2

\* C5: whatever the interleaving of store_event calls on two streams, no update is
\* lost, no id is assigned twice and the ids of each stream strictly increase in
\* append order.
C5_InterleavedAppends ==
    /\ \A s \in Streams :
          /\ StreamEvents(s) = AsEvents(CallsOn(s, Len(calls)))
          /\ StrictlyIncreasing(StreamEvents(s))
    /\ Cardinality(UNION {IdsOf(StreamEvents(s)) : s \in Streams}) = event_counter
    /\ event_counter = Len(calls)

\* Four calls that alternate between the two streams.
C5_Witness ==
    /\ Len(calls) >= 4
    /\ \A k \in 1..3 : calls[k].stream # calls[k + 1].stream

\* C6: the sequence get_events_since returned stays what it was at the moment of
\* the call, whatever store_event does afterwards.
C6_ReturnedSnapshotStable ==
    result.called => Deref(result.ref) = result.returned

\* C9: for a stream the store does not know, get_events_since returns an empty
\* sequence and no error, whatever the last id.
C9_UnknownStreamEmpty ==
    /\ \A s \in Streams \ DOMAIN events, l \in LastEventIds :
          get_events_since(s, l) = FreshList(<<>>)
    /\ (result.called /\ ~result.known) =>
          (result.ref.kind # "raised" /\ result.returned = <<>>)

\* A read of an unknown stream with a last id that the other stream holds.
C9_Witness ==
    /\ result.called
    /\ ~result.known
    /\ result.last.present
    /\ \E k \in 1..result.ncalls : calls[k].id = result.last.val

---------------------------------------------------------------------------
(* Properties of send_notification, checked under SpecNotify *)

Notifications(trace) ==
    LET IsNotify(e) == e.kind = "notify" IN SelectSeq(trace, IsNotify)

Pauses(trace) ==
    LET IsSleep(e) == e.kind = "sleep" IN SelectSeq(trace, IsSleep)

\* The log messages of request p that a stream holds, in storage order.
PublishedBy(p, stream_id) ==
    LET FromP(e) == e.message.related_request_id = p
    IN  SelectSeq(StreamEvents(stream_id), FromP)

\* "[k/count] Notification from '<caller>' - interval: <interval>s"
ExpectedText(k, f) ==
    <<"[", Str(k), "/", Str(f.count), "] Notification from '", f.caller,
      "' - interval: ", Str(f.interval), "s">>

Completed(p) == inv[p].pc = "done" /\ ~inv[p].cancelled

\* C7 as stated: a completed invocation has emitted count notifications and made
\* count - 1 pauses.
C7_CountAndPausesAsStated ==
    \A p \in Invocations :
        Completed(p) =>
            /\ Len(Notifications(inv[p].trace)) = inv[p].count
            /\ Len(Pauses(inv[p].trace)) = inv[p].count - 1

\* C7, amended: a completed invocation has emitted max(count, 0) notifications,
\* numbered 1, 2, ... in order with the stated text, with one pause of interval
\* between two successive ones and none after the last: max(count - 1, 0) pauses.
C7_NotificationsAndPauses ==
    \A p \in Invocations :
        Completed(p) =>
            LET f == inv[p]
                n == IF f.count > 0 THEN f.count ELSE 0
            IN  /\ Len(Notifications(f.trace)) = n
                /\ Len(Pauses(f.trace)) = (IF n > 0 THEN n - 1 ELSE 0)
                /\ Len(f.trace) = Len(Notifications(f.trace)) + Len(Pauses(f.trace))
                /\ \A k \in 1..n :
                      /\ f.trace[2 * k - 1] = NotifyEntry(k, ExpectedText(k, f))
                      /\ k < n => f.trace[2 * k] = SleepEntry(f.interval)
                /\ f.ret = <<"Sent ", Str(f.count), " notifications with ",
                             Str(f.interval), "s interval for caller: ", f.caller>>

\* An invocation with the largest count and interval 1 has run to completion.
C7_Witness ==
    \E p \in Invocations :
        /\ Completed(p)
        /\ inv[p].count = MaxCount
        /\ inv[p].count >= 2
        /\ inv[p].interval = 1
        /\ Len(Pauses(inv[p].trace)) = MaxCount - 1

\* C8: once an invocation is cancelled it publishes nothing more, and the events it
\* has stored stay in the store at the same positions with the same ids and
\* payloads.
C8_CancelStopsAndKeeps ==
    [][\A p \in Invocations :
          inv[p].cancelled =>
              /\ inv'[p].cancelled
              /\ Notifications(inv'[p].trace) = Notifications(inv[p].trace)
              /\ \A s \in Streams :
                    /\ PublishedBy(p, s)' = PublishedBy(p, s)
                    /\ \A k \in 1..Len(StreamEvents(s)) :
                          StreamEvents(s)[k].message.related_request_id = p =>
                              /\ Len(StreamEvents(s)') >= k
                              /\ StreamEvents(s)'[k] = StreamEvents(s)[k]]_vars

\* An invocation was cancelled after the first of its notifications, and the other
\* invocation has stored events on the same stream since.
C8_Witness ==
    \E p \in Invocations :
        /\ inv[p].cancelled
        /\ inv[p].count >= 2
        /\ Len(PublishedBy(p, inv[p].stream)) = 1
        /\ event_counter > inv[p].cancelled_at
        /\ Len(StreamEvents(inv[p].stream)) >= 3

---------------------------------------------------------------------------
(* Properties of call_tool, checked under SpecTool *)

\* C10: the three user-facing tool errors come back as text content, not as a
\* fault: an operation outside add, subtract, multiply, divide; divide with b = 0;
\* a tool name that is not known.
C10_ToolErrorsAreText ==
    response.kind # "none" =>
        /\ (request.name = "calculate"
            /\ request.operation \notin {Some("add"), Some("subtract"),
                                          Some("multiply"), Some("divide")}) =>
              response =
                  [kind |-> "text",
                   text |-> <<"Unknown operation: ",
                              IF request.operation.present THEN request.operation.val
                              ELSE "None",
                              ". Valid operations: ",
                              <<"add", "subtract", "multiply", "divide">>>>]
        /\ (request.name = "calculate"
            /\ request.operation = Some("divide")
            /\ request.b = Some(0)) =>
              response = [kind |-> "text", text |-> <<"Division by zero is not allowed">>]
        /\ request.name \notin {"greet", "calculate", "get_server_info",
                                "send_notification"} =>
              response = [kind |-> "text", text |-> <<"Unknown tool: ", request.name>>]

\* calculate(divide, 2, 0) has been answered.
C10_Witness ==
    /\ response.kind = "text"
    /\ request.name = "calculate"
    /\ request.operation = Some("divide")
    /\ request.a = Some(2)
    /\ request.b = Some(0)

====
